---- MODULE Spec2Model ----
(***************************************************************************)
(* Model of server.py: the beats catalogue (BeatsDatabase over SQLite) and *)
(* the request handlers of BeatStoreHandler.                               *)
(*                                                                         *)
(* Text is modelled as a sequence of one-character strings, so that        *)
(* lower(), endswith(), startswith(), splitext(), replace(), abspath() and *)
(* int() are computed character by character as Python computes them.      *)
(* The HTTP server is single threaded (HTTPServer.serve_forever), so each  *)
(* request handler is one atomic action.                                   *)
(***************************************************************************)
EXTENDS Integers, Sequences, FiniteSets, TLC

VARIABLES
    folder_exists,  \* os.path.exists(BEATS_FOLDER)
    folder,         \* os.listdir(BEATS_FOLDER): the set of entry names
    outside,        \* absolute paths of regular files outside BEATS_FOLDER
    beats,          \* table beats, in id order: beats[i].id = i
    inquiries,      \* table exclusive_inquiries, in id order
    req,            \* the request (call) handled last
    resp,           \* what the call handled last answered
    passes          \* sync passes run in succession up to now: 0, 1, or 2 for
                    \* two or more

vars == <<folder_exists, folder, outside, beats, inquiries, req, resp, passes>>

----------------------------------------------------------------------------
(* Bounds of the model *)

\* add_beat is not called once the table holds this many rows
MaxBeats == 2
\* handle_inquiry_submission is not called once the table holds this many rows
MaxInquiries == 2
\* longest id token of GET /api/beats/<id>
MaxIdLen == 2

----------------------------------------------------------------------------
(* Text *)

\* SQL NULL / Python None, distinct from every text (no character is "NULL")
Null == <<"NULL">>

\* str.lower() of one character, on the characters the model uses
Lower(c) ==
    CASE c = "A" -> "a"
      [] c = "B" -> "b"
      [] c = "C" -> "c"
      [] c = "M" -> "m"
      [] c = "P" -> "p"
      [] OTHER -> c

\* str.lower()
LowerStr(s) == [i \in 1..Len(s) |-> Lower(s[i])]

\* str.endswith(suffix)
EndsWith(s, suf) ==
    /\ Len(s) >= Len(suf)
    /\ SubSeq(s, Len(s) - Len(suf) + 1, Len(s)) = suf

\* str.startswith(prefix)
StartsWith(s, pre) ==
    /\ Len(s) >= Len(pre)
    /\ SubSeq(s, 1, Len(pre)) = pre

\* str.replace(a, b) for one-character a and b
Replace(s, a, b) == [i \in 1..Len(s) |-> IF s[i] = a THEN b ELSE s[i]]

\* c in s
Contains(s, c) == \E i \in 1..Len(s) : s[i] = c

\* str.rfind(c), 1-based; 0 when c does not occur (Python's -1)
RFind(s, c) ==
    IF Contains(s, c)
    THEN CHOOSE i \in 1..Len(s) : s[i] = c /\ \A j \in (i+1)..Len(s) : s[j] # c
    ELSE 0

\* os.path.splitext on an entry name (no separator in it): the extension
\* starts at the last dot, unless only dots precede that dot
splitext(p) ==
    LET dotIndex == RFind(p, ".")
    IN  IF dotIndex > 0 /\ \E k \in 1..(dotIndex - 1) : p[k] # "."
        THEN <<SubSeq(p, 1, dotIndex - 1), SubSeq(p, dotIndex, Len(p))>>
        ELSE <<p, <<>>>>

----------------------------------------------------------------------------
(* Inputs of the model *)

\* BEATS_FOLDER, an absolute POSIX path: "/b"
BEATS_FOLDER == <<"/", "b">>

\* Entry names the directory may hold:
\* "a b.mp3", "a_b.mp3" (both give slug "a-b"), "c.MP3", ".ogg", "n.txt"
FileNames ==
    { <<"a", " ", "b", ".", "m", "p", "3">>,
      <<"a", "_", "b", ".", "m", "p", "3">>,
      <<"c", ".", "M", "P", "3">>,
      <<".", "o", "g", "g">>,
      <<"n", ".", "t", "x", "t">> }

\* Arguments add_beat is called with
AddTitles == { <<"t">>, Null }
AddSlugs == { <<"a", "-", "b">>, <<"s">> }
AddFileNames == { <<"c", ".", "M", "P", "3">>, <<"q", ".", "w", "a", "v">> }
AddFileTypes == { <<"w", "a", "v">> }

\* Every order in which os.listdir may return the entries of S
RECURSIVE Orderings(_)
Orderings(S) ==
    IF S = {}
    THEN { <<>> }
    ELSE UNION { { <<x>> \o s : s \in Orderings(S \ {x}) } : x \in S }

----------------------------------------------------------------------------
(* BeatsDatabase: table beats *)

\* INSERT INTO beats (...) VALUES (...) under the schema of init_db:
\* id INTEGER PRIMARY KEY AUTOINCREMENT (rows are never deleted, so the next
\* id is the row count plus one), title, slug, file_name, file_type NOT NULL,
\* slug UNIQUE.  file_name carries no UNIQUE constraint.
InsertBeat(rows, title, slug, description, genre, bpm, duration, file_name, file_type) ==
    IF title = Null \/ slug = Null \/ file_name = Null \/ file_type = Null
    THEN [ok |-> FALSE, error |-> "NOT NULL constraint failed", rows |-> rows, lastrowid |-> 0]
    ELSE IF \E i \in 1..Len(rows) : rows[i].slug = slug
    THEN [ok |-> FALSE, error |-> "UNIQUE constraint failed: beats.slug", rows |-> rows, lastrowid |-> 0]
    ELSE [ok |-> TRUE, error |-> "",
          rows |-> Append(rows, [id |-> Len(rows) + 1, title |-> title, slug |-> slug,
                                 description |-> description, genre |-> genre, bpm |-> bpm,
                                 duration |-> duration, file_name |-> file_name,
                                 file_type |-> file_type]),
          lastrowid |-> Len(rows) + 1]

\* add_beat: one INSERT in a transaction of its own; an IntegrityError leaves
\* the with-block, which rolls back, and reaches the caller
add_beat(rows, title, slug, description, genre, bpm, duration, file_name, file_type) ==
    InsertBeat(rows, title, slug, description, genre, bpm, duration, file_name, file_type)

\* get_beat_by_id: SELECT * FROM beats WHERE id = ?  then fetchone(): the row
\* as a one-element sequence, the empty sequence for None
get_beat_by_id(rows, beat_id) ==
    IF beat_id \in 1..Len(rows) THEN <<rows[beat_id]>> ELSE <<>>

----------------------------------------------------------------------------
(* BeatsDatabase.sync_beats_from_folder *)

audio_extensions ==
    { <<".", "m", "p", "3">>, <<".", "w", "a", "v">>, <<".", "m", "4", "a">>,
      <<".", "f", "l", "a", "c">>, <<".", "o", "g", "g">> }

\* f.lower().endswith(audio_extensions)
IsAudioFile(f) == \E ext \in audio_extensions : EndsWith(LowerStr(f), ext)

\* title = os.path.splitext(file_name)[0]
TitleOf(file_name) == splitext(file_name)[1]

\* file_type = os.path.splitext(file_name)[1][1:].lower()
FileTypeOf(file_name) ==
    LET ext == splitext(file_name)[2] IN LowerStr(SubSeq(ext, 2, Len(ext)))

\* slug = title.lower().replace(' ', '-').replace('_', '-')
SlugOf(title) == Replace(Replace(LowerStr(title), " ", "-"), "_", "-")

\* SELECT id FROM beats WHERE file_name = ?  then fetchone()
InDatabase(rows, file_name) == \E i \in 1..Len(rows) : rows[i].file_name = file_name

\* The loop with the INSERT in a try block of its own: a failing file is
\* skipped and the loop goes on
RECURSIVE SyncLoop_skip(_, _)
SyncLoop_skip(files, rows) ==
    IF files = <<>>
    THEN [ok |-> TRUE, rows |-> rows]
    ELSE LET file_name == Head(files)
         IN  IF InDatabase(rows, file_name)
             THEN SyncLoop_skip(Tail(files), rows)
             ELSE LET title == TitleOf(file_name)
                      r == InsertBeat(rows, title, SlugOf(title), Null, Null, Null, Null,
                                      file_name, FileTypeOf(file_name))
                  IN  SyncLoop_skip(Tail(files), r.rows)

\* The for loop over files, on the rows of the open transaction.  A failing
\* INSERT raises out of the loop: ok is FALSE and rows are those written so far.
RECURSIVE SyncLoop(_, _)
SyncLoop(files, rows) ==
    IF files = <<>>
    THEN [ok |-> TRUE, rows |-> rows]
    ELSE LET file_name == Head(files)
         IN  IF InDatabase(rows, file_name)
             THEN SyncLoop(Tail(files), rows)
             ELSE LET title == TitleOf(file_name)
                      r == InsertBeat(rows, title, SlugOf(title), Null, Null, Null, Null,
                                      file_name, FileTypeOf(file_name))
                  IN  IF r.ok
                      THEN SyncLoop(Tail(files), r.rows)
                      ELSE [ok |-> FALSE, rows |-> rows]

\* The same call without the rollback: what the failed pass wrote stays
sync_keeps_partial(exists, listing, rows) ==
    IF ~exists
    THEN [outcome |-> "not found", rows |-> rows, count |-> 0]
    ELSE LET files == SelectSeq(listing, IsAudioFile)
             r == SyncLoop(files, rows)
         IN  IF r.ok
             THEN [outcome |-> "synced", rows |-> r.rows, count |-> Len(files)]
             ELSE [outcome |-> "error", rows |-> r.rows, count |-> 0]

\* sync_beats_from_folder: listing is os.listdir's answer.  conn.commit() runs
\* after the loop; an exception leaves the with-block, which rolls the whole
\* transaction back, and is printed by the except clause.
sync_beats_from_folder(exists, listing, rows) ==
    IF ~exists
    THEN [outcome |-> "not found", rows |-> rows, count |-> 0]
    ELSE LET files == SelectSeq(listing, IsAudioFile)
             r == SyncLoop(files, rows)
         IN  IF r.ok
             THEN [outcome |-> "synced", rows |-> r.rows, count |-> Len(files)]
             ELSE [outcome |-> "error", rows |-> rows, count |-> 0]

----------------------------------------------------------------------------
(* Actions of the catalogue *)

\* GET /api/beats: handle_beats_list -> get_all_beats -> sync, then SELECT
handle_beats_list ==
    \E listing \in Orderings(folder) :
        LET r == sync_beats_from_folder(folder_exists, listing, beats)
        IN  /\ beats' = r.rows
            /\ req' = [op |-> "list"]
            /\ resp' = [op |-> "list", status |-> 200, sync |-> r.outcome, count |-> r.count]
            /\ passes' = IF passes = 0 THEN 1 ELSE 2
            /\ UNCHANGED <<folder_exists, folder, outside, inquiries>>

\* A call of add_beat
AddBeat ==
    /\ Len(beats) < MaxBeats
    /\ \E title \in AddTitles, slug \in AddSlugs, file_name \in AddFileNames,
          file_type \in AddFileTypes :
        LET r == add_beat(beats, title, slug, Null, Null, Null, Null, file_name, file_type)
        IN  /\ beats' = r.rows
            /\ req' = [op |-> "add_beat", title |-> title, slug |-> slug,
                       file_name |-> file_name, file_type |-> file_type]
            /\ resp' = [op |-> "add_beat", ok |-> r.ok, error |-> r.error,
                        lastrowid |-> r.lastrowid]
            /\ passes' = 0
            /\ UNCHANGED <<folder_exists, folder, outside, inquiries>>

\* A file appears in the beats folder
CreateFile ==
    /\ folder_exists
    /\ \E f \in FileNames \ folder : folder' = folder \cup {f}
    /\ req' = [op |-> "fs"]
    /\ resp' = [op |-> "fs"]
    /\ passes' = 0
    /\ UNCHANGED <<folder_exists, outside, beats, inquiries>>

\* A file is removed from the beats folder
RemoveFile ==
    /\ \E f \in folder : folder' = folder \ {f}
    /\ req' = [op |-> "fs"]
    /\ resp' = [op |-> "fs"]
    /\ passes' = 0
    /\ UNCHANGED <<folder_exists, outside, beats, inquiries>>

\* The (empty) beats folder is removed, or made again
ToggleFolder ==
    /\ folder = {}
    /\ folder_exists' = ~folder_exists
    /\ req' = [op |-> "fs"]
    /\ resp' = [op |-> "fs"]
    /\ passes' = 0
    /\ UNCHANGED <<folder, outside, beats, inquiries>>

\* After construction: init_db on a new database file, the folder made by mkdir
Init ==
    /\ folder_exists = TRUE
    /\ folder = {}
    /\ outside = {}
    /\ beats = <<>>
    /\ inquiries = <<>>
    /\ req = [op |-> "init"]
    /\ resp = [op |-> "init"]
    /\ passes = 0

Next ==
    \/ handle_beats_list
    \/ AddBeat
    \/ CreateFile
    \/ RemoveFile
    \/ ToggleFolder

Spec == Init /\ [][Next]_vars

----------------------------------------------------------------------------
(* Properties of the catalogue, stated for Spec *)

\* The indices of the rows whose file_name is f
RowsOf(rows, f) == { i \in 1..Len(rows) : rows[i].file_name = f }

\* The audio files of the directory that have no row yet
Uncatalogued(dir, rows) == { f \in dir : IsAudioFile(f) /\ RowsOf(rows, f) = {} }

\* f's slug is taken by no row and by no other uncatalogued file
SlugFree(f, dir, rows) ==
    /\ \A i \in 1..Len(rows) : rows[i].slug # SlugOf(TitleOf(f))
    /\ \A g \in Uncatalogued(dir, rows) \ {f} : SlugOf(TitleOf(g)) # SlugOf(TitleOf(f))

\* Some insert of a pass over dir must fail: an uncatalogued file's slug is taken
SomeInsertFails(dir, rows) == \E f \in Uncatalogued(dir, rows) : ~SlugFree(f, dir, rows)

\* C1: when two uncatalogued files of the directory normalize to the same
\* (otherwise free) slug, a sync pass catalogues exactly one of the two, and
\* still catalogues a third uncatalogued file whose slug is free.
C1_SyncContinuesPastConflict ==
    [][ resp'.op = "list" =>
          \A f, g, h \in Uncatalogued(folder, beats) :
              ( /\ f # g
                /\ SlugOf(TitleOf(f)) = SlugOf(TitleOf(g))
                /\ \A i \in 1..Len(beats) : beats[i].slug # SlugOf(TitleOf(f))
                /\ SlugFree(h, folder, beats) )
              => ( /\ Cardinality({ x \in {f, g} : RowsOf(beats', x) # {} }) = 1
                   /\ RowsOf(beats', h) # {} ) ]_vars

\* C2: once a sync call has completed, every audio file of the directory has
\* exactly one row with its fileName.
C2_ExactlyOneRowPerFile ==
    (resp.op = "list" /\ folder_exists) =>
        \A f \in folder : IsAudioFile(f) => Cardinality(RowsOf(beats, f)) = 1

\* C3: add_beat (called with the NOT NULL columns given) fails and leaves the
\* table unchanged when a row with the same slug or the same fileName exists,
\* otherwise appends one row and returns its id; no two rows share a slug and
\* no two rows share a fileName.
C3_InsertBeatRejectsDuplicates ==
    [][ (resp'.op = "add_beat" /\ req'.title # Null /\ req'.file_type # Null) =>
          /\ IF \E i \in 1..Len(beats) :
                    beats[i].slug = req'.slug \/ beats[i].file_name = req'.file_name
             THEN ~resp'.ok /\ beats' = beats
             ELSE /\ resp'.ok
                  /\ Len(beats') = Len(beats) + 1
                  /\ SubSeq(beats', 1, Len(beats)) = beats
                  /\ beats'[Len(beats')].id = resp'.lastrowid
                  /\ \A i \in 1..Len(beats) : beats[i].id # resp'.lastrowid
          /\ \A i, j \in 1..Len(beats') :
                 i # j => /\ beats'[i].slug # beats'[j].slug
                          /\ beats'[i].file_name # beats'[j].file_name ]_vars

\* C4: a sync that directly follows a sync, the directory unchanged in
\* between, adds no row: the table after the second equals the table after
\* the first.
C4_SyncIdempotent ==
    [][ (resp.op = "list" /\ resp'.op = "list") => beats' = beats ]_vars

\* Two syncs in succession over a directory with audio files, rows in the table
C4_Witness ==
    /\ passes = 2
    /\ resp.op = "list"
    /\ Len(beats) >= 2
    /\ Cardinality({ f \in folder : IsAudioFile(f) }) >= 2

\* The file types of the recognized extensions
AudioTypes == { SubSeq(e, 2, Len(e)) : e \in audio_extensions }

\* C9: every row a sync inserts is for a name that ends, case-insensitively,
\* in a recognized extension, and its fileType is that extension lower-cased
\* without the dot.
C9_SyncFileTypes ==
    [][ resp'.op = "list" =>
          \A i \in (Len(beats) + 1)..Len(beats') :
              /\ IsAudioFile(beats'[i].file_name)
              /\ beats'[i].file_type \in AudioTypes
              /\ EndsWith(LowerStr(beats'[i].file_name), <<".">> \o beats'[i].file_type) ]_vars

\* C10: a sync call either gives every previously uncatalogued audio file of
\* the directory one new row (when no insert can fail), or leaves the table
\* exactly as it was (when some insert fails).
C10_SyncAllOrNothing ==
    [][ resp'.op = "list" =>
          IF SomeInsertFails(folder, beats)
          THEN beats' = beats
          ELSE /\ Len(beats') = Len(beats) + Cardinality(Uncatalogued(folder, beats))
               /\ SubSeq(beats', 1, Len(beats)) = beats
               /\ \A f \in Uncatalogued(folder, beats) :
                      \E i \in (Len(beats) + 1)..Len(beats') : beats'[i].file_name = f ]_vars

\* A failed sync has run over a directory that holds, beside the colliding
\* file, an uncatalogued file whose insert would have succeeded
C10_Witness ==
    /\ resp.op = "list"
    /\ resp.sync = "error"
    /\ Len(beats) >= 1
    /\ \E h \in Uncatalogued(folder, beats) : SlugFree(h, folder, beats)

----------------------------------------------------------------------------
(* POST /api/inquiry *)

\* JSON values of the request body
JNull == [t |-> "null"]
JStr(s) == [t |-> "str", v |-> s]
JInt(n) == [t |-> "int", v |-> n]
\* marks a key the body does not hold
Absent == [t |-> "absent"]

required_fields == {"beatId", "name", "email", "offer"}

\* Values the model sends: beatId null or 1; name null, "" or "n"; offer null
\* or "o"; email null, "", "a", "a@b", "a.b" or "a@b.c"
BeatIdValues == { JNull, JInt(1) }
NameValues == { JNull, JStr(<<>>), JStr(<<"n">>) }
OfferValues == { JNull, JStr(<<"o">>) }
EmailValues ==
    { JNull, JStr(<<>>), JStr(<<"a">>), JStr(<<"a", "@", "b">>), JStr(<<"a", ".", "b">>),
      JStr(<<"a", "@", "b", ".", "c">>) }

\* The parsed body: the keys sent, with their values
Body(b, n, e, o) ==
    LET full == [beatId |-> b, name |-> n, email |-> e, offer |-> o]
    IN  [k \in { f \in required_fields : full[f] # Absent } |-> full[k]]

\* The email test with 'and' in place of 'or': only an email lacking both is refused
EmailFormatOk_and(email) == Contains(email, "@") \/ Contains(email, ".")

\* not ('@' not in email or '.' not in email)
EmailFormatOk(email) == Contains(email, "@") /\ Contains(email, ".")

\* save_inquiry: INSERT INTO exclusive_inquiries under the schema of init_db:
\* beat_id, name, email, offer NOT NULL, status DEFAULT 'new'; the foreign
\* key is not enforced (SQLite's foreign_keys pragma is off by default)
save_inquiry(rows, beat_id, name, email, offer) ==
    IF beat_id = JNull \/ name = JNull \/ email = JNull \/ offer = JNull
    THEN [ok |-> FALSE, rows |-> rows, lastrowid |-> 0]
    ELSE [ok |-> TRUE,
          rows |-> Append(rows, [id |-> Len(rows) + 1, beat_id |-> beat_id, name |-> name,
                                 email |-> email, offer |-> offer, status |-> "new"]),
          lastrowid |-> Len(rows) + 1]

\* handle_inquiry_submission on a body that json.loads parsed (parsed) to the
\* object data, or refused
InquiryOutcome(parsed, data, rows) ==
    IF ~parsed
    THEN [status |-> 400, error |-> "Bad Request", inquiryId |-> 0, rows |-> rows]
    ELSE IF ~(\A field \in required_fields : field \in DOMAIN data)
    THEN [status |-> 400, error |-> "Missing required fields", inquiryId |-> 0, rows |-> rows]
    ELSE IF data.email.t # "str"
    THEN \* '@' not in None raises TypeError
         [status |-> 500, error |-> "Internal Server Error", inquiryId |-> 0, rows |-> rows]
    ELSE IF ~EmailFormatOk(data.email.v)
    THEN [status |-> 400, error |-> "Invalid email format", inquiryId |-> 0, rows |-> rows]
    ELSE LET r == save_inquiry(rows, data.beatId, data.name, data.email, data.offer)
         IN  IF r.ok
             THEN [status |-> 200, error |-> "", inquiryId |-> r.lastrowid, rows |-> r.rows]
             ELSE \* sqlite3.IntegrityError
                  [status |-> 500, error |-> "Internal Server Error", inquiryId |-> 0,
                   rows |-> rows]

handle_inquiry_submission ==
    /\ Len(inquiries) < MaxInquiries
    /\ \E parsed \in BOOLEAN,
          b \in BeatIdValues \cup {Absent}, n \in NameValues \cup {Absent},
          e \in EmailValues \cup {Absent}, o \in OfferValues \cup {Absent} :
        /\ (~parsed) => (b = Absent /\ n = Absent /\ e = Absent /\ o = Absent)
        /\ LET data == Body(b, n, e, o)
               r == InquiryOutcome(parsed, data, inquiries)
           IN  /\ inquiries' = r.rows
               /\ req' = [op |-> "inquiry", parsed |-> parsed, data |-> data]
               /\ resp' = [op |-> "inquiry", status |-> r.status, error |-> r.error,
                           inquiryId |-> r.inquiryId]
    /\ passes' = 0
    /\ UNCHANGED <<folder_exists, folder, outside, beats>>

\* The service started on a database that an earlier run left with one
\* catalogued beat ("c.MP3"), the folder holding that file
InitInquiry ==
    /\ folder_exists = TRUE
    /\ folder = { <<"c", ".", "M", "P", "3">> }
    /\ outside = {}
    /\ beats = sync_beats_from_folder(TRUE, << <<"c", ".", "M", "P", "3">> >>, <<>>).rows
    /\ inquiries = <<>>
    /\ req = [op |-> "init"]
    /\ resp = [op |-> "init"]
    /\ passes = 0

NextInquiry == handle_inquiry_submission

SpecInquiry == InitInquiry /\ [][NextInquiry]_vars

\* The field is missing or empty: absent key, null, or empty string
MissingOrEmpty(data, f) ==
    \/ f \notin DOMAIN data
    \/ data[f] = JNull
    \/ data[f] = JStr(<<>>)

\* C5: a submission in which any of the four fields is missing or empty is
\* answered 400 and writes no Inquiry row.
C5_InquiryRejectsMissing ==
    [][ ( /\ resp'.op = "inquiry"
          /\ req'.parsed
          /\ \E f \in required_fields : MissingOrEmpty(req'.data, f) )
        => (resp'.status = 400 /\ inquiries' = inquiries) ]_vars

\* The key is sent with a value other than null
Present(data, f) == f \in DOMAIN data /\ data[f] # JNull

\* C6: a submission whose email (a string) lacks '@' or lacks '.' is answered
\* 400 and writes no row; one whose email holds both, the other three fields
\* present, appends exactly one Inquiry row, with status "new", and changes
\* no existing Beat or Inquiry row.
C6_InquiryEmailValidation ==
    [][ ( /\ resp'.op = "inquiry"
          /\ req'.parsed
          /\ "email" \in DOMAIN req'.data
          /\ req'.data.email.t = "str" )
        => IF ~(Contains(req'.data.email.v, "@") /\ Contains(req'.data.email.v, "."))
           THEN resp'.status = 400 /\ inquiries' = inquiries /\ beats' = beats
           ELSE (\A f \in required_fields : Present(req'.data, f))
                => /\ resp'.status = 200
                   /\ Len(inquiries') = Len(inquiries) + 1
                   /\ SubSeq(inquiries', 1, Len(inquiries)) = inquiries
                   /\ inquiries'[Len(inquiries')].status = "new"
                   /\ inquiries'[Len(inquiries')].email = req'.data.email
                   /\ inquiries'[Len(inquiries')].name = req'.data.name
                   /\ beats' = beats ]_vars

\* An accepted submission has been stored after an earlier one, beats catalogued
C6_Witness ==
    /\ resp.op = "inquiry"
    /\ resp.status = 200
    /\ Len(inquiries) >= 2
    /\ inquiries[Len(inquiries)].status = "new"
    /\ Len(beats) >= 1

----------------------------------------------------------------------------
(* Paths: os.path.join, os.path.abspath, os.path.exists on POSIX *)

\* The index of the first c in s, 0 when c does not occur
Find(s, c) ==
    IF Contains(s, c)
    THEN CHOOSE i \in 1..Len(s) : s[i] = c /\ \A j \in 1..(i - 1) : s[j] # c
    ELSE 0

\* str.split(sep) for a one-character sep
RECURSIVE Split(_, _)
Split(s, sep) ==
    LET i == Find(s, sep)
    IN  IF i = 0
        THEN <<s>>
        ELSE <<SubSeq(s, 1, i - 1)>> \o Split(SubSeq(s, i + 1, Len(s)), sep)

\* sep.join(comps)
RECURSIVE Join(_, _)
Join(comps, sep) ==
    IF comps = <<>> THEN <<>>
    ELSE IF Len(comps) = 1 THEN comps[1]
    ELSE comps[1] \o <<sep>> \o Join(Tail(comps), sep)

\* os.path.join(a, b)
path_join(a, b) ==
    IF StartsWith(b, <<"/">>) THEN b
    ELSE IF a = <<>> \/ EndsWith(a, <<"/">>) THEN a \o b
    ELSE a \o <<"/">> \o b

\* The loop of posixpath.normpath over the components
RECURSIVE NormComps(_, _, _)
NormComps(comps, new_comps, initial_slashes) ==
    IF comps = <<>>
    THEN new_comps
    ELSE LET comp == Head(comps)
         IN  IF comp = <<>> \/ comp = <<".">>
             THEN NormComps(Tail(comps), new_comps, initial_slashes)
             ELSE IF \/ comp # <<".", ".">>
                     \/ (initial_slashes = 0 /\ new_comps = <<>>)
                     \/ (new_comps # <<>> /\ new_comps[Len(new_comps)] = <<".", ".">>)
             THEN NormComps(Tail(comps), Append(new_comps, comp), initial_slashes)
             ELSE IF new_comps # <<>>
             THEN NormComps(Tail(comps), SubSeq(new_comps, 1, Len(new_comps) - 1),
                            initial_slashes)
             ELSE NormComps(Tail(comps), new_comps, initial_slashes)

\* posixpath.normpath
normpath(path) ==
    IF path = <<>>
    THEN <<".">>
    ELSE LET initial_slashes ==
                 IF ~StartsWith(path, <<"/">>) THEN 0
                 ELSE IF StartsWith(path, <<"/", "/">>) /\ ~StartsWith(path, <<"/", "/", "/">>)
                 THEN 2
                 ELSE 1
             joined == Join(NormComps(Split(path, "/"), <<>>, initial_slashes), "/")
             result == [i \in 1..initial_slashes |-> "/"] \o joined
         IN  IF result = <<>> THEN <<".">> ELSE result

\* os.path.abspath of an absolute path (BEATS_FOLDER is absolute, so every
\* path the handler builds is)
abspath(path) == normpath(path)

\* The directories on disk: the root, the beats folder when it exists, and
\* the directories that hold the files outside it
Directories ==
    { <<"/">> }
      \cup (IF folder_exists THEN { abspath(BEATS_FOLDER) } ELSE {})
      \cup { LET c == Split(f, "/") IN <<"/">> \o Join(SubSeq(c, 2, Len(c) - 1), "/")
               : f \in outside }

\* The regular files on disk
Files == outside \cup { path_join(BEATS_FOLDER, f) : f \in folder }

\* "dir", "file" or "none": what the absolute normalized path p names
KindOf(p) ==
    IF p \in Directories THEN "dir" ELSE IF p \in Files THEN "file" ELSE "none"

\* The kernel's path walk from directory cur over the components left:
\* a component is looked up only in a directory, ".." is the parent
RECURSIVE Walk(_, _, _)
Walk(comps, cur, kind) ==
    IF comps = <<>>
    THEN [kind |-> kind, path |-> cur]
    ELSE IF kind # "dir"
    THEN [kind |-> "none", path |-> cur]
    ELSE LET comp == Head(comps)
         IN  IF comp = <<>> \/ comp = <<".">>
             THEN Walk(Tail(comps), cur, kind)
             ELSE IF comp = <<".", ".">>
             THEN Walk(Tail(comps), normpath(path_join(cur, comp)), "dir")
             ELSE LET next == path_join(cur, comp)
                  IN  Walk(Tail(comps), next, KindOf(next))

\* What the absolute path names on disk (os.path.exists: kind # "none")
Lookup(path) == Walk(Split(path, "/"), <<"/">>, "dir")

----------------------------------------------------------------------------
(* GET /api/audio/<file_name> *)

\* The guard of handle_audio_stream: a prefix match of the two path strings
TraversalGuardPasses(file_name) ==
    StartsWith(abspath(path_join(BEATS_FOLDER, file_name)), abspath(BEATS_FOLDER))

\* handle_audio_stream: the status sent first, the status of a send_error
\* that follows it (0: none), and the file whose bytes are written (Null:
\* none).  A directory passes os.path.exists and getsize, the 200 header is
\* sent, and open() then raises: send_error(500) follows the header.
AudioOutcome(file_name) ==
    LET file_path == path_join(BEATS_FOLDER, file_name)
        found == Lookup(file_path)
    IN  IF ~TraversalGuardPasses(file_name)
        THEN [status |-> 403, then_error |-> 0, bytes_of |-> Null]
        ELSE IF found.kind = "none"
        THEN [status |-> 404, then_error |-> 0, bytes_of |-> Null]
        ELSE IF found.kind = "dir"
        THEN [status |-> 200, then_error |-> 500, bytes_of |-> Null]
        ELSE [status |-> 200, then_error |-> 0, bytes_of |-> found.path]

\* File names requested: "c.MP3", "n.mp3", "", "..", "../x", "/x", "../b2/x",
\* "../b/c.MP3", "c.MP3/", "../c/x"
AudioRequests ==
    { <<"c", ".", "M", "P", "3">>,
      <<"n", ".", "m", "p", "3">>,
      <<>>,
      <<".", ".">>,
      <<".", ".", "/", "x">>,
      <<"/", "x">>,
      <<".", ".", "/", "b", "2", "/", "x">>,
      <<".", ".", "/", "b", "/", "c", ".", "M", "P", "3">>,
      <<"c", ".", "M", "P", "3", "/">>,
      <<".", ".", "/", "c", "/", "x">> }

\* Files that may exist outside the beats folder: "/b2/x", "/x"
OutsideFiles == { <<"/", "b", "2", "/", "x">>, <<"/", "x">> }

handle_audio_stream ==
    \E file_name \in AudioRequests :
        LET r == AudioOutcome(file_name)
        IN  /\ req' = [op |-> "audio", file_name |-> file_name]
            /\ resp' = [op |-> "audio", status |-> r.status, then_error |-> r.then_error,
                        bytes_of |-> r.bytes_of]
            /\ passes' = 0
            /\ UNCHANGED <<folder_exists, folder, outside, beats, inquiries>>

\* A file appears outside the beats folder
CreateOutside ==
    /\ \E f \in OutsideFiles \ outside : outside' = outside \cup {f}
    /\ req' = [op |-> "fs"]
    /\ resp' = [op |-> "fs"]
    /\ passes' = 0
    /\ UNCHANGED <<folder_exists, folder, beats, inquiries>>

\* A file outside the beats folder is removed
RemoveOutside ==
    /\ \E f \in outside : outside' = outside \ {f}
    /\ req' = [op |-> "fs"]
    /\ resp' = [op |-> "fs"]
    /\ passes' = 0
    /\ UNCHANGED <<folder_exists, folder, beats, inquiries>>

----------------------------------------------------------------------------
(* GET /api/beats/<id> *)

Digits == {"0", "1", "2", "3", "4", "5", "6", "7", "8", "9"}

DigitValue(c) == CHOOSE n \in 0..9 : <<"0", "1", "2", "3", "4", "5", "6", "7", "8", "9">>[n + 1] = c

\* The number a run of decimal digits writes
RECURSIVE DigitsValue(_)
DigitsValue(s) ==
    IF s = <<>> THEN 0
    ELSE 10 * DigitsValue(SubSeq(s, 1, Len(s) - 1)) + DigitValue(s[Len(s)])

\* s is one or more decimal digits
IsDigits(s) == s # <<>> /\ \A i \in 1..Len(s) : s[i] \in Digits

\* int(s) on the characters the model sends (digits, '-', letters): an
\* optional sign, then digits; anything else raises ValueError (ok = FALSE)
ParseInt(s) ==
    IF StartsWith(s, <<"-">>)
    THEN IF IsDigits(Tail(s))
         THEN [ok |-> TRUE, value |-> 0 - DigitsValue(Tail(s))]
         ELSE [ok |-> FALSE, value |-> 0]
    ELSE IF IsDigits(s)
         THEN [ok |-> TRUE, value |-> DigitsValue(s)]
         ELSE [ok |-> FALSE, value |-> 0]

\* handle_get_beat: the ValueError of int() is caught by except Exception
GetBeatOutcome(beat_id, rows) ==
    LET n == ParseInt(beat_id)
    IN  IF ~n.ok
        THEN [status |-> 500, beat |-> <<>>]
        ELSE IF get_beat_by_id(rows, n.value) = <<>>
        THEN [status |-> 404, beat |-> <<>>]
        ELSE [status |-> 200, beat |-> get_beat_by_id(rows, n.value)]

\* Characters of the id tokens sent
IdChars == {"0", "1", "2", "-", "x"}

\* The id tokens sent: every text over IdChars of at most MaxIdLen characters
IdTokens == UNION { [1..n -> IdChars] : n \in 0..MaxIdLen }

handle_get_beat ==
    \E beat_id \in IdTokens :
        LET r == GetBeatOutcome(beat_id, beats)
        IN  /\ req' = [op |-> "get_beat", beat_id |-> beat_id]
            /\ resp' = [op |-> "get_beat", status |-> r.status, beat |-> r.beat]
            /\ passes' = 0
            /\ UNCHANGED <<folder_exists, folder, outside, beats, inquiries>>

----------------------------------------------------------------------------
(* The read endpoints: SpecQuery and its properties *)

\* The service started on a database that an earlier run left with one
\* catalogued beat ("c.MP3"), the folder holding that file, and the files
\* "/b2/x" and "/x" on disk beside the folder
InitQuery ==
    /\ folder_exists = TRUE
    /\ folder = { <<"c", ".", "M", "P", "3">> }
    /\ outside = OutsideFiles
    /\ beats = sync_beats_from_folder(TRUE, << <<"c", ".", "M", "P", "3">> >>, <<>>).rows
    /\ inquiries = <<>>
    /\ req = [op |-> "init"]
    /\ resp = [op |-> "init"]
    /\ passes = 0

NextQuery ==
    \/ handle_get_beat
    \/ handle_audio_stream
    \/ CreateOutside
    \/ RemoveOutside

SpecQuery == InitQuery /\ [][NextQuery]_vars

\* The path p lies in the directory root: it is root or below it
IsWithin(p, root) ==
    LET pc == Split(p, "/")
        rc == Split(root, "/")
    IN  Len(pc) >= Len(rc) /\ SubSeq(pc, 1, Len(rc)) = rc

\* C7: a request whose resolved absolute path lies outside the audio
\* directory is answered 403 and no bytes are returned.
C7_TraversalRejected ==
    (resp.op = "audio"
       /\ ~IsWithin(abspath(path_join(BEATS_FOLDER, req.file_name)), abspath(BEATS_FOLDER)))
    => (resp.status = 403 /\ resp.bytes_of = Null)

\* The id token is a positive integer in decimal digits
IsPositiveInt(s) == IsDigits(s) /\ DigitsValue(s) > 0

\* C8: getBeat answers 400 when the id is not parseable as a positive
\* integer; otherwise the Beat with that identity, or 404 when there is none.
C8_GetBeatValidatesId ==
    resp.op = "get_beat" =>
        IF ~IsPositiveInt(req.beat_id)
        THEN resp.status = 400
        ELSE IF \E i \in 1..Len(beats) : beats[i].id = DigitsValue(req.beat_id)
        THEN resp.status = 200 /\ resp.beat = <<beats[DigitsValue(req.beat_id)]>>
        ELSE resp.status = 404

====
